---- MODULE Spec2Model ----
(***************************************************************************)
(* The node-local dataplane of the egress gateway agent: the VXLAN         *)
(* reconciler of pkg/agent/vxlan.go (reconcileEgressNode, the self status  *)
(* derivation, the neighbor resync ensureRoute and the periodic sweep      *)
(* keepVXLAN) over its collaborators (the API client, the tunnel device,   *)
(* the policy route engine, the peer map), and the IPv6 neighbor          *)
(* discovery responder of pkg/layer2/ndp.go (Watch, Unwatch, Gratuitous,   *)
(* Close and the read loop) over its connection and decision function.     *)
(*                                                                         *)
(* Every handler is one action.  The variable `last` is the record of the  *)
(* handler that ran last: what it was given, what it returned and the      *)
(* collaborator calls it issued, in program order.                         *)
(***************************************************************************)
EXTENDS Integers, Sequences, FiniteSets, TLC

VARIABLES
  cfg,        \* r.cfg.FileConfig: the enabled IP families
  peerMap,    \* r.peerMap: node name -> vxlan.Peer
  selfNode,   \* the API server's EgressNode of the local node
  fdb,        \* the tunnel device's neighbor table: hardware address -> underlay IP
  rules,      \* the policy route engine's rules: the set of marks that have one
  link,       \* the VXLAN interface
  last,       \* the handler that ran last
  ndp,        \* the NDP responder of the parent interface
  thread      \* the goroutines that are inside a handler: position and locals

vars == <<cfg, peerMap, selfNode, fdb, rules, link, last, ndp, thread>>

----------------------------------------------------------------------------
(* Bounds *)

\* At most this many collaborator calls fail within one handler invocation.
MaxFailures == 1

\* The refcount of a solicited-node group stays within -MaxRef .. MaxRef.
MaxRef == 2

\* The responder counts at most this many requests and this many gratuitous
\* advertisements.
MaxSent == 1

----------------------------------------------------------------------------
(* Names, addresses, marks *)

NodeName == "node1"
PeerNames == {"peerA", "peerB"}
Nodes == {NodeName} \cup PeerNames

\* The orders in which one iteration over a map of peers can visit them.
PeerOrders == { <<"peerA", "peerB">>, <<"peerB", "peerA">> }

\* net.IP: the family of the address, the length of its byte form, its text.
\* The nil IP (and a nil *net.IP) has length 0.
NilIP == [fam |-> 0, len |-> 0, txt |-> ""]

\* net.ParseIP: nil for a text that is no address, else the 16-byte form,
\* also for an IPv4 address.
ParseIP(s) ==
  CASE s = "10.10.0.1"   -> [fam |-> 4, len |-> 16, txt |-> "10.10.0.1"]
    [] s = "10.10.0.2"   -> [fam |-> 4, len |-> 16, txt |-> "10.10.0.2"]
    [] s = "172.16.0.1"  -> [fam |-> 4, len |-> 16, txt |-> "172.16.0.1"]
    [] s = "172.16.0.2"  -> [fam |-> 4, len |-> 16, txt |-> "172.16.0.2"]
    [] s = "172.16.0.3"  -> [fam |-> 4, len |-> 16, txt |-> "172.16.0.3"]
    [] s = "fd00::1"     -> [fam |-> 6, len |-> 16, txt |-> "fd00::1"]
    [] s = "fd00::2"     -> [fam |-> 6, len |-> 16, txt |-> "fd00::2"]
    [] s = "fd01::1"     -> [fam |-> 6, len |-> 16, txt |-> "fd01::1"]
    [] s = "fd01::2"     -> [fam |-> 6, len |-> 16, txt |-> "fd01::2"]
    [] s = "fd01::3"     -> [fam |-> 6, len |-> 16, txt |-> "fd01::3"]
    [] OTHER             -> NilIP

\* net.IP.To4: the 4-byte form of an IPv4 address, nil for anything else.
To4(ip) == IF ip.fam = 4 THEN [ip EXCEPT !.len = 4] ELSE NilIP

\* net.IP.To16: the 16-byte form of ANY address, IPv4 included; nil only for nil.
To16(ip) == IF ip.len \in {4, 16} THEN [ip EXCEPT !.len = 16] ELSE NilIP

\* net.IP.String
IPString(ip) == IF ip.len = 0 THEN "<nil>" ELSE ip.txt

\* net.HardwareAddr: the bytes of the address; nil is the empty sequence.
NilMAC == << >>
HW1 == <<170, 187, 204, 221, 238, 1>>
HW2 == <<170, 187, 204, 221, 238, 2>>
HWSelf == <<170, 187, 204, 221, 238, 16>>
HWs == {HW1, HW2, HWSelf}

\* net.ParseMAC: accepts the colon, the hyphen and the dot form, in either case.
ParseMAC(s) ==
  CASE s = "aa:bb:cc:dd:ee:01" -> [mac |-> HW1, err |-> FALSE]
    [] s = "AA-BB-CC-DD-EE-01" -> [mac |-> HW1, err |-> FALSE]
    [] s = "aa:bb:cc:dd:ee:02" -> [mac |-> HW2, err |-> FALSE]
    [] s = "aa:bb:cc:dd:ee:10" -> [mac |-> HWSelf, err |-> FALSE]
    [] OTHER                   -> [mac |-> NilMAC, err |-> TRUE]

\* net.HardwareAddr.String: lower-case hexadecimal bytes joined by colons.
HardwareAddrString(h) ==
  CASE h = HW1    -> "aa:bb:cc:dd:ee:01"
    [] h = HW2    -> "aa:bb:cc:dd:ee:02"
    [] h = HWSelf -> "aa:bb:cc:dd:ee:10"
    [] OTHER      -> ""

\* parseMarkToInt: the hexadecimal mark of a status, an error for other text.
parseMarkToInt(s) ==
  CASE s = "0x100" -> [mark |-> 256, err |-> FALSE]
    [] s = "0x200" -> [mark |-> 512, err |-> FALSE]
    [] OTHER       -> [mark |-> 0, err |-> TRUE]

\* r.cfg.FileConfig.Mark ("0x26000000"), the reserved base mark.
ReservedMark == 637534208

Marks == {0, 256, 512, ReservedMark}

----------------------------------------------------------------------------
(* Records *)

\* vxlan.Peer
Peer(parent, mac, ipv4, ipv6, mark) ==
  [Parent |-> parent, MAC |-> mac, IPv4 |-> ipv4, IPv6 |-> ipv6, Mark |-> mark]

\* egressv1.EgressNodeStatus
Status(pname, p4, p6, t4, t6, mac, mark, phase) ==
  [parentName |-> pname, parentIPv4 |-> p4, parentIPv6 |-> p6,
   tunIPv4 |-> t4, tunIPv6 |-> t6, mac |-> mac, mark |-> mark, phase |-> phase]

ZeroStatus == Status("", "", "", "", "", "", "", "")

\* What client.Get hands a reconcile: res is "ok", "notfound" or "error".
GetResult(res, deleting, status) ==
  [res |-> res, deleting |-> deleting, status |-> status]

NotFound == GetResult("notfound", FALSE, ZeroStatus)
GetError == GetResult("error", FALSE, ZeroStatus)

\* One collaborator call of the log: the function, what it was called on,
\* whether it succeeded; Ensure's two marks and PurgeStaleRules' live marks.
CallRec(fn, key, markIn, markOut, live, ok) ==
  [fn |-> fn, key |-> key, markIn |-> markIn, markOut |-> markOut,
   live |-> live, ok |-> ok]
Call(fn, key, ok) == CallRec(fn, key, 0, 0, {}, ok)

\* A call the environment makes fail.
FailPoint(fn, key) == [fn |-> fn, key |-> key]
Fails(F, fn, key) == FailPoint(fn, key) \in F

\* The subsets of S of at most k elements.
RECURSIVE AtMost(_, _)
AtMost(S, k) ==
  IF k = 0 THEN {{}}
  ELSE UNION {{t} \cup {t \cup {x} : x \in S} : t \in AtMost(S, k - 1)}

\* No goroutine is inside a handler: every handler runs as one step.
NoThreads == << >>

\* r.version()
version(c) == IF ~c.EnableIPv4 /\ c.EnableIPv6 THEN 6 ELSE 4

----------------------------------------------------------------------------
(* The collaborators: the tunnel device and the policy route engine *)

\* vxlan.Device.ListNeigh: every entry of the neighbor table, as a list.
HWOrder == <<HW1, HW2, HWSelf>>
ListNeigh(f) == SelectSeq(HWOrder, LAMBDA h : h \in DOMAIN f)

\* vxlan.Device.Add: sets the one entry keyed by the peer's MAC.
vxlanAdd(f, peer) ==
  [h \in DOMAIN f \cup {peer.MAC} |-> IF h = peer.MAC THEN peer.Parent ELSE f[h]]

\* vxlan.Device.Del: removes the one entry keyed by the item's MAC.
vxlanDel(f, item) == [h \in DOMAIN f \ {item} |-> f[h]]

\* vxlan.Device.EnsureLink: the interface exists with the desired parameters.
EnsureLink(mac, ipv4, ipv6) == [up |-> TRUE, mac |-> mac, ipv4 |-> ipv4, ipv6 |-> ipv6]

NoLink == [up |-> FALSE, mac |-> NilMAC, ipv4 |-> NilIP, ipv6 |-> NilIP]

\* route.RuleRoute.Ensure: a rule for markIn exists.
ruleRouteEnsure(rl, markIn) == rl \cup {markIn}

\* route.RuleRoute.PurgeStaleRules: drops every rule whose mark is neither
\* live nor the reserved mark.
PurgeStaleRules(rl, markMap, reserved) ==
  {m \in rl : m \in markMap \/ m = reserved}

----------------------------------------------------------------------------
(* ensureRoute: the neighbor resync *)

\* The local copy ensureRoute takes of the peer map: every key but the local
\* node's name.
routePeers(pm) == DOMAIN pm \ {NodeName}

\* The MAC texts of that copy.
expected(pm) == {HardwareAddrString(pm[n].MAC) : n \in routePeers(pm)}

\* A round of the loop over neighList that deletes nothing.
delStep_Keep(item, exp, acc, F) == acc

\* One round of the loop over neighList: Del for an item whose MAC text is not
\* expected; a failing Del is logged and the loop goes on.  acc is the
\* neighbor table and the calls so far.
delStep(item, exp, acc, F) ==
  LET key == HardwareAddrString(item)
      ok  == ~Fails(F, "Del", key)
  IN IF key \in exp THEN acc
     ELSE [fdb   |-> IF ok THEN vxlanDel(acc.fdb, item) ELSE acc.fdb,
           calls |-> Append(acc.calls, Call("Del", key, ok))]

RECURSIVE delLoop(_, _, _, _)
delLoop(list, exp, acc, F) ==
  IF list = << >> THEN acc
  ELSE delLoop(Tail(list), exp, delStep(Head(list), exp, acc, F), F)

\* One round of the loop over the copy: Add for the peer, whatever the table
\* holds; a failing Add is logged and the loop goes on.
addStep(n, pm, acc, F) ==
  LET ok == ~Fails(F, "Add", n)
  IN [fdb   |-> IF ok THEN vxlanAdd(acc.fdb, pm[n]) ELSE acc.fdb,
      calls |-> Append(acc.calls, Call("Add", n, ok))]

RECURSIVE addLoop(_, _, _, _)
addLoop(names, pm, acc, F) ==
  IF names = << >> THEN acc
  ELSE addLoop(Tail(names), pm, addStep(Head(names), pm, acc, F), F)

\* ensureRoute returns nil once the list was read.
routeDone(acc) == [err |-> FALSE, fdb |-> acc.fdb, calls |-> acc.calls]

\* ensureRoute over peer map pm and neighbor table f; ord is the order in
\* which this run's map iteration visits the names.
ensureRoute(pm, f, F, ord) ==
  IF Fails(F, "ListNeigh", "")
  THEN [err |-> TRUE, fdb |-> f, calls |-> <<Call("ListNeigh", "", FALSE)>>]
  ELSE routeDone(
         addLoop(SelectSeq(ord, LAMBDA n : n \in routePeers(pm)), pm,
                 delLoop(ListNeigh(f), expected(pm),
                         [fdb |-> f, calls |-> <<Call("ListNeigh", "", TRUE)>>], F),
                 F))

----------------------------------------------------------------------------
(* The self status: parseVTEP, updateEgressNodeStatus, ensureEgressNodeStatus *)

\* parseVTEP: the record of a ready status; ready is FALSE where the code
\* returns nil.
parseVTEP(c, st) ==
  LET ip4    == ParseIP(st.tunIPv4)
      ip6    == ParseIP(st.tunIPv6)
      ready4 == ~c.EnableIPv4 \/ (st.tunIPv4 # "" /\ To4(ip4) # NilIP)
      ready6 == ~c.EnableIPv6 \/ (st.tunIPv6 # "" /\ To16(ip6) # NilIP)
      m      == ParseMAC(st.mac)
  IN [ready |-> ready4 /\ ready6 /\ ~m.err,
      peer  |-> Peer(NilIP, m.mac,
                     IF c.EnableIPv4 /\ st.tunIPv4 # "" THEN ip4 ELSE NilIP,
                     IF c.EnableIPv6 /\ st.tunIPv6 # "" THEN ip6 ELSE NilIP, 0)]

\* The parent fields updateEgressNodeStatus writes into the status.
parentSet(c, st, par) ==
  IF version(c) = 4
  THEN [st EXCEPT !.parentName = par.Name, !.parentIPv4 = IPString(par.IP),
                  !.parentIPv6 = ""]
  ELSE [st EXCEPT !.parentName = par.Name, !.parentIPv6 = IPString(par.IP),
                  !.parentIPv4 = ""]

\* The phase it writes: Succeeded once the status parses as a VTEP.
phaseSet(c, st) ==
  IF parseVTEP(c, st).ready THEN [st EXCEPT !.phase = "Succeeded"] ELSE st

\* The status updateEgressNodeStatus derives from status st and parent par.
derivedStatus(c, st, par) == phaseSet(c, parentSet(c, st, par))

\* An end of updateEgressNodeStatus that writes the status whatever it holds.
statusUpdate_AlwaysWrite(st, new, sn, calls, F) ==
  IF Fails(F, "Update", "")
  THEN [err |-> TRUE, status |-> new, api |-> sn,
        calls |-> Append(calls, Call("Update", "", FALSE))]
  ELSE [err |-> FALSE, status |-> new, api |-> [sn EXCEPT !.status = new],
        calls |-> Append(calls, Call("Update", "", TRUE))]

\* The end of updateEgressNodeStatus: the status is written if it changed.
statusUpdate(st, new, sn, calls, F) ==
  IF new = st
  THEN [err |-> FALSE, status |-> new, api |-> sn, calls |-> calls]
  ELSE IF Fails(F, "Update", "")
  THEN [err |-> TRUE, status |-> new, api |-> sn,
        calls |-> Append(calls, Call("Update", "", FALSE))]
  ELSE [err |-> FALSE, status |-> new, api |-> [sn EXCEPT !.status = new],
        calls |-> Append(calls, Call("Update", "", TRUE))]

\* updateEgressNodeStatus(node, version): hasNode is FALSE for the call with
\* a nil node, which looks the self node up; sn is the API server's self node.
updateEgressNodeStatus(hasNode, st0, c, sn, F, par) ==
  IF Fails(F, "getParent", "")
  THEN [err |-> TRUE, status |-> st0, api |-> sn,
        calls |-> <<Call("getParent", "", FALSE)>>]
  ELSE IF hasNode
  THEN statusUpdate(st0, derivedStatus(c, st0, par), sn,
                    <<Call("getParent", "", TRUE)>>, F)
  ELSE IF Fails(F, "Get", "")
  THEN \* a lookup error that is not NotFound: return nil
       [err |-> FALSE, status |-> st0, api |-> sn,
        calls |-> <<Call("getParent", "", TRUE), Call("Get", "error", FALSE)>>]
  ELSE IF ~sn.exists
  THEN \* NotFound: return err
       [err |-> TRUE, status |-> st0, api |-> sn,
        calls |-> <<Call("getParent", "", TRUE), Call("Get", "notfound", FALSE)>>]
  ELSE statusUpdate(sn.status, derivedStatus(c, sn.status, par), sn,
                    <<Call("getParent", "", TRUE), Call("Get", "ok", TRUE)>>, F)

\* The end of ensureEgressNodeStatus: the self entry is stored if the status
\* parses as a VTEP.  u is what the update, if there was one, returned.
selfStore(u, vtep, pm) ==
  IF u.err
  THEN [err |-> TRUE, peerMap |-> pm, api |-> u.api, calls |-> u.calls]
  ELSE [err |-> FALSE,
        peerMap |-> IF vtep.ready
                    THEN [n \in DOMAIN pm \cup {NodeName} |->
                            IF n = NodeName THEN vtep.peer ELSE pm[n]]
                    ELSE pm,
        api |-> u.api, calls |-> u.calls]

\* What the update of ensureEgressNodeStatus returns, or nothing to update.
selfUpdate(st, c, sn, F, par) ==
  IF \/ version(c) = 4 /\ st.parentIPv4 = ""
     \/ version(c) = 6 /\ st.parentIPv6 = ""
  THEN updateEgressNodeStatus(TRUE, st, c, sn, F, par)
  ELSE [err |-> FALSE, status |-> st, api |-> sn, calls |-> << >>]

selfParse(u, c, pm) == selfStore(u, parseVTEP(c, u.status), pm)

\* ensureEgressNodeStatus(node) on peer map pm.
ensureEgressNodeStatus(st, c, pm, sn, F, par) ==
  selfParse(selfUpdate(st, c, sn, F, par), c, pm)

----------------------------------------------------------------------------
(* reconcileEgressNode *)

\* peerMap.Store and peerMap.Delete
Store(pm, name, peer) ==
  [n \in DOMAIN pm \cup {name} |-> IF n = name THEN peer ELSE pm[n]]
Delete(pm, name) == [n \in DOMAIN pm \ {name} |-> pm[n]]

\* The peer record reconcileEgressNode builds from a peer's status.
peerMark(mk) == IF mk.err THEN 0 ELSE mk.mark
peerOf(c, st) ==
  Peer(ParseIP(IF version(c) = 4 THEN st.parentIPv4 ELSE st.parentIPv6),
       ParseMAC(st.mac).mac, To4(ParseIP(st.tunIPv4)),
       To16(ParseIP(st.tunIPv6)), peerMark(parseMarkToInt(st.mark)))

\* What a reconcile returns: its error, and the peer map, the API server's
\* self node, the neighbor table and the rules it leaves, the calls it made.
Reconciled(err, pm, sn, f, rl, calls) ==
  [err |-> err, peerMap |-> pm, api |-> sn, fdb |-> f, rules |-> rl,
   calls |-> calls]

\* The resync of a peer event: r is what ensureRoute returned, whose error
\* is logged only.
peerRoute(pm1, r, sn, rl) == Reconciled(FALSE, pm1, sn, r.fdb, rl, r.calls)

\* The Ensure of a stored peer, with its mark as both marks; its error is
\* logged only.
peerEnsure(name, mark, ok, res) ==
  [res EXCEPT !.rules = IF ok THEN ruleRouteEnsure(@, mark) ELSE @,
              !.calls = Append(@, CallRec("Ensure", name, mark, mark, {}, ok))]

\* The peer branch once the status passed the early checks.
peerStore(name, peer, pm, sn, f, rl, F, ord) ==
  peerEnsure(name, peer.Mark, ~Fails(F, "Ensure", name),
             peerRoute(Store(pm, name, peer),
                       ensureRoute(Store(pm, name, peer), f, F, ord), sn, rl))

\* A delete branch of a peer that leaves the neighbors as they are.
peerDelete_NoResync(name, pm, sn, f, rl, F, ord) ==
  Reconciled(FALSE, Delete(pm, name), sn, f, rl, << >>)

\* The delete branch of a peer.
peerDelete(name, pm, sn, f, rl, F, ord) ==
  peerRoute(Delete(pm, name), ensureRoute(Delete(pm, name), f, F, ord), sn, rl)

\* A delete branch that does not ask whether the event is a peer's.
deleteBranch_NoPeerCheck(name, pm, sn, f, rl, F, ord) ==
  peerDelete(name, pm, sn, f, rl, F, ord)

\* The delete branch: a peer is removed and the neighbors are resynced; the
\* local node's own deletion is not reacted to.
deleteBranch(name, pm, sn, f, rl, F, ord) ==
  IF name # NodeName
  THEN peerDelete(name, pm, sn, f, rl, F, ord)
  ELSE Reconciled(FALSE, pm, sn, f, rl, << >>)

\* The self branch: e is what ensureEgressNodeStatus returned.
selfEnsure(e, f, rl) == Reconciled(e.err, e.peerMap, e.api, f, rl, e.calls)

\* A reconcile that stores a peer without the early checks.
reconcileEgressNode_NoEarlyCheck(name, get, c, pm, sn, f, rl, F, ord, par) ==
  IF get.res = "error" THEN Reconciled(TRUE, pm, sn, f, rl, << >>)
  ELSE IF get.res = "notfound" \/ get.deleting
  THEN deleteBranch(name, pm, sn, f, rl, F, ord)
  ELSE IF name # NodeName
  THEN peerStore(name, peerOf(c, get.status), pm, sn, f, rl, F, ord)
  ELSE selfEnsure(ensureEgressNodeStatus(get.status, c, pm, sn, F, par), f, rl)

\* reconcileEgressNode for the request `name`, client.Get answering `get`.
reconcileEgressNode(name, get, c, pm, sn, f, rl, F, ord, par) ==
  IF get.res = "error" THEN Reconciled(TRUE, pm, sn, f, rl, << >>)
  ELSE IF get.res = "notfound" \/ get.deleting
  THEN deleteBranch(name, pm, sn, f, rl, F, ord)
  ELSE IF name # NodeName
  THEN IF (IF version(c) = 4 THEN get.status.parentIPv4
           ELSE get.status.parentIPv6) = ""
       THEN Reconciled(FALSE, pm, sn, f, rl, << >>)
       ELSE IF ParseMAC(get.status.mac).err
       THEN Reconciled(FALSE, pm, sn, f, rl, << >>)
       ELSE peerStore(name, peerOf(c, get.status), pm, sn, f, rl, F, ord)
  ELSE selfEnsure(ensureEgressNodeStatus(get.status, c, pm, sn, F, par), f, rl)

----------------------------------------------------------------------------
(* keepVXLAN: one pass of the sweep *)

\* One round of the Range over the peer map: Ensure for the entry, with its
\* mark, whatever the mark is; a failing Ensure is logged and the Range goes on.
ensureStep(n, pm, acc, F) ==
  LET ok == ~Fails(F, "Ensure", n)
  IN [rules |-> IF ok THEN ruleRouteEnsure(acc.rules, pm[n].Mark) ELSE acc.rules,
      calls |-> Append(acc.calls,
                       CallRec("Ensure", n, pm[n].Mark, pm[n].Mark, {}, ok))]

RECURSIVE ensureLoop(_, _, _, _)
ensureLoop(names, pm, acc, F) ==
  IF names = << >> THEN acc
  ELSE ensureLoop(Tail(names), pm, ensureStep(Head(names), pm, acc, F), F)

\* The marks the Range collects: the non-zero marks of the entries.
markMap(pm) == {pm[n].Mark : n \in DOMAIN pm} \ {0}

\* What a pass leaves: the API server's self node, the neighbor table, the
\* rules, the link, and the calls it made; gated is the pass that found no
\* self entry.
Swept(gated, sn, f, rl, lk, calls) ==
  [gated |-> gated, api |-> sn, fdb |-> f, rules |-> rl, link |-> lk,
   calls |-> calls]

\* The link a pass asks for: the self entry's MAC and, for each enabled
\* family, its tunnel address.
linkOf(c, vtep) ==
  EnsureLink(vtep.MAC,
             IF c.EnableIPv4 /\ To4(vtep.IPv4) # NilIP THEN To4(vtep.IPv4) ELSE NilIP,
             IF c.EnableIPv6 /\ To16(vtep.IPv6) # NilIP THEN To16(vtep.IPv6) ELSE NilIP)

\* An end of a pass that purges nothing.
sweepPurge_Skip(e, live, ok, sn, f, lk) == Swept(FALSE, sn, f, e.rules, lk, e.calls)

\* The end of a pass: PurgeStaleRules with the marks collected; its error is
\* logged only.  e is the rules and the calls after the Range.
sweepPurge(e, live, ok, sn, f, lk) ==
  Swept(FALSE, sn, f,
        IF ok THEN PurgeStaleRules(e.rules, live, ReservedMark) ELSE e.rules,
        lk, Append(e.calls, CallRec("PurgeStaleRules", "", 0, 0, live, ok)))

\* The pass from ensureRoute on: r is what ensureRoute returned; its error
\* ends the pass.
sweepRoute(r, calls, pm, sn, rl, lk, F, ord) ==
  IF r.err THEN Swept(FALSE, sn, r.fdb, rl, lk, calls \o r.calls)
  ELSE sweepPurge(ensureLoop(SelectSeq(<<NodeName>> \o ord,
                                       LAMBDA n : n \in DOMAIN pm), pm,
                             [rules |-> rl, calls |-> calls \o r.calls], F),
                  markMap(pm), ~Fails(F, "PurgeStaleRules", ""), sn, r.fdb, lk)

\* A pass that logs the error of EnsureLink and goes on.
sweepLink_LinkErrorLogged(u, c, pm, f, rl, lk, F, ord) ==
  IF u.err THEN Swept(FALSE, u.api, f, rl, lk, u.calls)
  ELSE sweepRoute(ensureRoute(pm, f, F, ord),
                  Append(u.calls, Call("EnsureLink", "", ~Fails(F, "EnsureLink", ""))),
                  pm, u.api, rl,
                  IF Fails(F, "EnsureLink", "") THEN lk ELSE linkOf(c, pm[NodeName]),
                  F, ord)

\* The pass from the status repair on: u is what updateEgressNodeStatus
\* returned; its error, and the error of EnsureLink, end the pass.
sweepLink(u, c, pm, f, rl, lk, F, ord) ==
  IF u.err THEN Swept(FALSE, u.api, f, rl, lk, u.calls)
  ELSE IF Fails(F, "EnsureLink", "")
  THEN Swept(FALSE, u.api, f, rl, lk,
             Append(u.calls, Call("EnsureLink", "", FALSE)))
  ELSE sweepRoute(ensureRoute(pm, f, F, ord),
                  Append(u.calls, Call("EnsureLink", "", TRUE)),
                  pm, u.api, rl, linkOf(c, pm[NodeName]), F, ord)

\* A pass that, without a self entry, skips the status repair and the link
\* only, and goes on with the resync and the rules.
keepVXLAN_GateLinkOnly(c, pm, sn, f, rl, lk, F, ord, par) ==
  IF NodeName \notin DOMAIN pm
  THEN sweepRoute(ensureRoute(pm, f, F, ord), << >>, pm, sn, rl, lk, F, ord)
  ELSE sweepLink(updateEgressNodeStatus(FALSE, ZeroStatus, c, sn, F, par),
                 c, pm, f, rl, lk, F, ord)

\* One pass of the loop of keepVXLAN, from the Load of the self entry to the
\* sleep that ends it.
keepVXLAN(c, pm, sn, f, rl, lk, F, ord, par) ==
  IF NodeName \notin DOMAIN pm THEN Swept(TRUE, sn, f, rl, lk, << >>)
  ELSE sweepLink(updateEgressNodeStatus(FALSE, ZeroStatus, c, sn, F, par),
                 c, pm, f, rl, lk, F, ord)

----------------------------------------------------------------------------
(* The NDP responder of pkg/layer2/ndp.go *)

\* The addresses the responder is called with: an IPv4 address, two IPv6
\* addresses with the same low 24 bits, one with others, and the nil IP.
IP4 == [fam |-> 4, len |-> 16, txt |-> "10.10.0.1"]
IP6a == [fam |-> 6, len |-> 16, txt |-> "fe80::10"]
IP6b == [fam |-> 6, len |-> 16, txt |-> "fd00::10"]
IP6c == [fam |-> 6, len |-> 16, txt |-> "fd00::20"]
NdpIPs == {IP4, IP6a, IP6b, IP6c, NilIP}

\* The interface the responder is bound to and its hardware address.
Intf == "eth0"
IntfHW == <<170, 187, 204, 221, 238, 32>>

\* net.IPv6linklocalallnodes and the transport-level sender of a message.
AllNodes == [fam |-> 6, len |-> 16, txt |-> "ff02::1"]
Sender == [fam |-> 6, len |-> 16, txt |-> "fe80::aa"]

\* ndp.SolicitedNodeMulticast: ff02::1:ff with the low 24 bits of an IPv6
\* address appended; an error for an address that is not IPv6.
Groups == {"ff02::1:ff00:10", "ff02::1:ff00:20"}
SolicitedNodeMulticast(ip) ==
  CASE ip = IP6a -> [group |-> "ff02::1:ff00:10", err |-> FALSE]
    [] ip = IP6b -> [group |-> "ff02::1:ff00:10", err |-> FALSE]
    [] ip = IP6c -> [group |-> "ff02::1:ff00:20", err |-> FALSE]
    [] OTHER     -> [group |-> "", err |-> TRUE]

\* The responder newNDPResponder returns: the refcounts (a Go map, 0 for a
\* missing key), the groups the connection has joined, the closed channel,
\* the read loop, and the counters of the stats package.
NdpNew ==
  [intf |-> Intf, hardwareAddr |-> IntfHW,
   solicitedNodeGroups |-> [g \in Groups |-> 0], joined |-> {},
   closed |-> FALSE, connClosed |-> FALSE, running |-> TRUE,
   sentGratuitous |-> 0, gotRequest |-> 0, sentResponse |-> 0]

\* One call on the connection or on the decision function: JoinGroup and
\* LeaveGroup with their group; WriteTo with its destination and the
\* advertisement; announce with the target.
NdpCall(fn, dst, target, solicited, override, addr, ok) ==
  [fn |-> fn, dst |-> dst, target |-> target, solicited |-> solicited,
   override |-> override, addr |-> addr, ok |-> ok]
GroupCall(fn, group, ok) == NdpCall(fn, group, NilIP, FALSE, FALSE, NilMAC, ok)

\* What a call on the responder returns: the responder after it, its error
\* (for the read loop, its drop reason), its calls.
NdpResult(n, err, reason, calls) ==
  [ndp |-> n, err |-> err, reason |-> reason, calls |-> calls]

\* The refcount of a group changed by d.
counted(n, group, d) ==
  [n EXCEPT !.solicitedNodeGroups[group] = @ + d]

\* A Watch that counts the watcher before it looks at the count.
watchGroup_CountFirst(n, group, joinOk) ==
  IF n.solicitedNodeGroups[group] + 1 = 0
  THEN IF joinOk
       THEN NdpResult([counted(n, group, 1) EXCEPT !.joined = @ \cup {group}],
                      FALSE, "", <<GroupCall("JoinGroup", group, TRUE)>>)
       ELSE NdpResult(counted(n, group, 1), TRUE, "",
                      <<GroupCall("JoinGroup", group, FALSE)>>)
  ELSE NdpResult(counted(n, group, 1), FALSE, "", << >>)

\* Watch from the refcount on: the group is joined if its count is 0, and a
\* failing join returns before the count is raised.
watchGroup(n, group, joinOk) ==
  IF n.solicitedNodeGroups[group] = 0
  THEN IF joinOk
       THEN NdpResult([counted(n, group, 1) EXCEPT !.joined = @ \cup {group}],
                      FALSE, "", <<GroupCall("JoinGroup", group, TRUE)>>)
       ELSE NdpResult(n, TRUE, "", <<GroupCall("JoinGroup", group, FALSE)>>)
  ELSE NdpResult(counted(n, group, 1), FALSE, "", << >>)

\* ndpResponder.Watch
Watch(n, ip, joinOk) ==
  IF To4(ip) # NilIP THEN NdpResult(n, FALSE, "", << >>)
  ELSE IF SolicitedNodeMulticast(ip).err THEN NdpResult(n, TRUE, "", << >>)
  ELSE watchGroup(n, SolicitedNodeMulticast(ip).group, joinOk)

\* Unwatch from the refcount on: the count is lowered, then the group is left
\* if the count is 0.
unwatchGroup(n, group, leaveOk) ==
  IF n.solicitedNodeGroups[group] - 1 = 0
  THEN IF leaveOk
       THEN NdpResult([counted(n, group, -1) EXCEPT !.joined = @ \ {group}],
                      FALSE, "", <<GroupCall("LeaveGroup", group, TRUE)>>)
       ELSE NdpResult(counted(n, group, -1), TRUE, "",
                      <<GroupCall("LeaveGroup", group, FALSE)>>)
  ELSE NdpResult(counted(n, group, -1), FALSE, "", << >>)

\* ndpResponder.Unwatch
Unwatch(n, ip, leaveOk) ==
  IF To4(ip) # NilIP THEN NdpResult(n, FALSE, "", << >>)
  ELSE IF SolicitedNodeMulticast(ip).err THEN NdpResult(n, TRUE, "", << >>)
  ELSE unwatchGroup(n, SolicitedNodeMulticast(ip).group, leaveOk)

\* An advertise that sets both flags the wrong way round.
advertise_FlagsSwapped(n, dst, target, gratuitous, writeOk) ==
  NdpCall("WriteTo", dst, target, gratuitous, ~gratuitous, n.hardwareAddr,
          writeOk)

\* ndpResponder.advertise: the one WriteTo of a Neighbor Advertisement that
\* carries the interface's hardware address as target link-layer address.
advertise(n, dst, target, gratuitous, writeOk) ==
  NdpCall("WriteTo", dst, target, ~gratuitous, gratuitous, n.hardwareAddr,
          writeOk)

\* ndpResponder.Gratuitous: the counter is raised whatever advertise returned.
Gratuitous(n, ip, writeOk) ==
  NdpResult([n EXCEPT !.sentGratuitous = @ + 1], ~writeOk, "",
            <<advertise(n, AllNodes, ip, TRUE, writeOk)>>)

\* A first statement of Close that closes the connection.
closeSignal_Conn(n) == [n EXCEPT !.connClosed = TRUE]

\* The two statements of Close: close(n.closed), then n.conn.Close().
closeSignal(n) == [n EXCEPT !.closed = TRUE]
closeConn(n) == [n EXCEPT !.connClosed = TRUE]

\* ndpResponder.Close
Close(n) == NdpResult(closeConn(closeSignal(n)), FALSE, "", << >>)

\* The drop reasons processRequest returns.
dropReasonNone == "none"
dropReasonClosed == "closed"
dropReasonError == "error"
dropReasonMessageType == "messageType"
dropReasonNoSourceLL == "noSourceLL"
dropReasonNotMatchInterface == "notMatchInterface"
dropReasonAnnounceIP == "announceIP"

\* The options a solicitation carries: link-layer addresses of either
\* direction, and others.
LLA(direction, addr) == [kind |-> "lla", direction |-> direction, addr |-> addr]
OtherOption == [kind |-> "other", direction |-> "", addr |-> NilMAC]
OptionLists ==
  { << >>, <<LLA("target", HW1)>>, <<OtherOption>>, <<LLA("source", HW1)>>,
    <<OtherOption, LLA("target", HW2), LLA("source", HW1)>> }

\* What one ReadFrom returns: an error ("EOF", "closing" for a read on a
\* connection that was closed, "io" for any other), or a message
\* with its type, target and options, and the sender the transport reports.
Read(err, type, target, options) ==
  [err |-> err, type |-> type, target |-> target, options |-> options,
   src |-> Sender]
ReadErrors == {Read(e, "", NilIP, << >>) : e \in {"EOF", "io"}}
Messages ==
  {Read("", "NS", ip, o) : ip \in {IP6a, IP6b, IP6c}, o \in OptionLists}
    \cup {Read("", "NA", IP6a, <<LLA("source", HW1)>>)}

\* The sender's source link-layer address: the address of the first
\* link-layer option whose direction is Source, nil without one.
RECURSIVE nsLLAddr(_)
nsLLAddr(options) ==
  IF options = << >> THEN NilMAC
  ELSE IF Head(options).kind = "lla" /\ Head(options).direction = "source"
       THEN Head(options).addr
       ELSE nsLLAddr(Tail(options))

\* The decision function the responder was constructed with, asked about a
\* target and an interface: it approves one address, and has for the others
\* either of its reasons to drop.
announce(target, intf) ==
  CASE target = IP6a -> dropReasonNone
    [] target = IP6b -> dropReasonAnnounceIP
    [] OTHER        -> dropReasonNotMatchInterface

ReadCall(rd) ==
  NdpCall("ReadFrom", NilIP, NilIP, FALSE, FALSE, NilMAC, rd.err = "")
AnnounceCall(n, target) ==
  NdpCall("announce", n.intf, target, FALSE, FALSE, NilMAC,
          announce(target, n.intf) = dropReasonNone)

\* A response that is never counted.
respond_NeverCounted(n, rd, writeOk, calls) ==
  NdpResult([n EXCEPT !.gotRequest = @ + 1], FALSE, dropReasonNone,
            Append(calls, advertise(n, rd.src, rd.target, FALSE, writeOk)))

\* processRequest once the decision function approved: the request is
\* counted, the advertisement goes to the sender, and is counted if sent.
respond(n, rd, writeOk, calls) ==
  NdpResult([n EXCEPT !.gotRequest = @ + 1,
                      !.sentResponse = IF writeOk THEN @ + 1 ELSE @],
            FALSE, dropReasonNone,
            Append(calls, advertise(n, rd.src, rd.target, FALSE, writeOk)))

\* A handling of messages that is content with a link-layer address option
\* of either direction.
solicitation_AnyLL(n, rd, writeOk, calls) ==
  IF rd.type # "NS" THEN NdpResult(n, FALSE, dropReasonMessageType, calls)
  ELSE IF \A i \in DOMAIN rd.options : rd.options[i].kind # "lla"
  THEN NdpResult(n, FALSE, dropReasonNoSourceLL, calls)
  ELSE IF announce(rd.target, n.intf) # dropReasonNone
  THEN NdpResult(n, FALSE, announce(rd.target, n.intf),
                 Append(calls, AnnounceCall(n, rd.target)))
  ELSE respond(n, rd, writeOk, Append(calls, AnnounceCall(n, rd.target)))

\* processRequest once a message was read: anything but a solicitation is
\* dropped, then a solicitation without source link-layer address, then one
\* the decision function gives a reason to drop.
solicitation(n, rd, writeOk, calls) ==
  IF rd.type # "NS" THEN NdpResult(n, FALSE, dropReasonMessageType, calls)
  ELSE IF nsLLAddr(rd.options) = NilMAC
  THEN NdpResult(n, FALSE, dropReasonNoSourceLL, calls)
  ELSE IF announce(rd.target, n.intf) # dropReasonNone
  THEN NdpResult(n, FALSE, announce(rd.target, n.intf),
                 Append(calls, AnnounceCall(n, rd.target)))
  ELSE respond(n, rd, writeOk, Append(calls, AnnounceCall(n, rd.target)))

\* ndpResponder.processRequest: rd is what ReadFrom returns, writeOk whether
\* WriteTo would succeed.
processRequest(n, rd, writeOk) ==
  IF rd.err # ""
  THEN IF n.closed THEN NdpResult(n, FALSE, dropReasonClosed, <<ReadCall(rd)>>)
       ELSE IF rd.err = "EOF"
       THEN NdpResult(n, FALSE, dropReasonClosed, <<ReadCall(rd)>>)
       ELSE NdpResult(n, FALSE, dropReasonError, <<ReadCall(rd)>>)
  ELSE solicitation(n, rd, writeOk, <<ReadCall(rd)>>)

\* One iteration of ndpResponder.run: the loop goes on unless processRequest
\* returned dropReasonClosed.
run(n, rd, writeOk) ==
  [processRequest(n, rd, writeOk) EXCEPT
     !.ndp.running = (processRequest(n, rd, writeOk).reason # dropReasonClosed)]

----------------------------------------------------------------------------
(* The environment: the API server's resources, the parent interface, drift *)

\* The configurations: IPv4 only, IPv6 only, dual stack.
Cfg(v4, v6) == [EnableIPv4 |-> v4, EnableIPv6 |-> v6]
Cfgs == {Cfg(TRUE, FALSE), Cfg(FALSE, TRUE), Cfg(TRUE, TRUE)}

\* r.getParent(version): the parent interface of the tunnel and its address.
getParent(ver) ==
  IF ver = 4 THEN [Name |-> "eth0", IP |-> ParseIP("172.16.0.1")]
  ELSE [Name |-> "eth0", IP |-> ParseIP("fd01::1")]

\* The self node as the API server holds it.
NoNode == [exists |-> FALSE, deleting |-> FALSE, status |-> ZeroStatus]
Node(deleting, st) == [exists |-> TRUE, deleting |-> deleting, status |-> st]

\* What client.Get answers for the self node.
SelfGet(sn) == IF sn.exists THEN GetResult("ok", sn.deleting, sn.status) ELSE NotFound

\* The status the controller gives the self node when it creates it: the
\* tunnel addresses of the enabled families and the MAC, nothing else.
SelfCreated(c) ==
  Status("", "", "", IF c.EnableIPv4 THEN "10.10.0.1" ELSE "",
         IF c.EnableIPv6 THEN "fd00::1" ELSE "", "aa:bb:cc:dd:ee:10", "", "")

\* The underlay address a peer's agent wrote to its status.
PeerParentText(n, ver) ==
  IF ver = 4 THEN (IF n = "peerA" THEN "172.16.0.2" ELSE "172.16.0.3")
  ELSE (IF n = "peerA" THEN "fd01::2" ELSE "fd01::3")

\* A peer's status: its parent address in the field of the cluster's version.
PeerStatus(c, parent, t4, t6, mac, mark) ==
  Status("eth0", IF version(c) = 4 THEN parent ELSE "",
         IF version(c) = 6 THEN parent ELSE "", t4, t6, mac, mark, "Succeeded")

\* A peer that is ready: its parent address, both tunnel addresses.
ReadyPeer(n, c, mac, mark) ==
  PeerStatus(c, PeerParentText(n, version(c)), "10.10.0.2", "fd00::2", mac, mark)

\* The failures a handler can meet: at most MaxFailures of the calls it can
\* issue in this state.
FailuresAmong(points) == AtMost(points, MaxFailures)

RouteFailPoints(names, f) ==
  {FailPoint("ListNeigh", "")} \cup {FailPoint("Add", n) : n \in names}
  \cup {FailPoint("Del", HardwareAddrString(h)) : h \in DOMAIN f}

StatusFailPoints == {FailPoint(fn, "") : fn \in {"getParent", "Update"}}

SweepFailPoints(pm, f) ==
  StatusFailPoints
  \cup {FailPoint(fn, "") : fn \in {"Get", "EnsureLink", "PurgeStaleRules"}}
  \cup RouteFailPoints(routePeers(pm), f)
  \cup {FailPoint("Ensure", n) : n \in DOMAIN pm}

\* The orders in which an iteration can visit the peers of pm: the order
\* decides which Add comes last, so it is a choice where two peers share a MAC.
Orders(pm) ==
  IF \E n, m \in routePeers(pm) : n # m /\ pm[n].MAC = pm[m].MAC
  THEN PeerOrders ELSE {<<"peerA", "peerB">>}

----------------------------------------------------------------------------
(* Actions *)

LastRec(op, name, get, err, gated, calls) ==
  [op |-> op, name |-> name, get |-> get, err |-> err, gated |-> gated,
   calls |-> calls]

EnvLast == LastRec("env", "", NotFound, FALSE, FALSE, << >>)

\* A resource event for `name` is delivered and reconciled.
Reconcile(name, get, F, ord) ==
  \E r \in {reconcileEgressNode(name, get, cfg, peerMap, selfNode, fdb, rules,
                                 F, ord, getParent(version(cfg)))} :
     /\ peerMap' = r.peerMap
     /\ selfNode' = r.api
     /\ fdb' = r.fdb
     /\ rules' = r.rules
     /\ last' = LastRec("reconcile", name, get, r.err, FALSE, r.calls)
     /\ UNCHANGED <<cfg, link, ndp, thread>>

\* An event for peer n: client.Get answers one of `gets`, and at most
\* MaxFailures of the calls among `points` fail.
PeerEvent(n, gets, points) ==
  \E get \in gets :
    \E F \in FailuresAmong(points) :
      \E ord \in Orders(IF get.res = "ok" /\ ~get.deleting
                        THEN Store(peerMap, n, peerOf(cfg, get.status))
                        ELSE peerMap) :
        Reconcile(n, get, F, ord)

\* An event for the local node; the lookup finds the node as it is, or fails.
SelfEvent ==
  \E get \in {SelfGet(selfNode), GetError} :
    \E F \in FailuresAmong(StatusFailPoints) :
      Reconcile(NodeName, get, F, <<"peerA", "peerB">>)

\* One pass of the sweep.
Sweep(F, ord) ==
  \E r \in {keepVXLAN(cfg, peerMap, selfNode, fdb, rules, link, F, ord,
                       getParent(version(cfg)))} :
     /\ selfNode' = r.api
     /\ fdb' = r.fdb
     /\ rules' = r.rules
     /\ link' = r.link
     /\ last' = LastRec("sweep", NodeName, NotFound, FALSE, r.gated, r.calls)
     /\ UNCHANGED <<cfg, peerMap, ndp, thread>>

SweepPass ==
  \E F \in FailuresAmong(SweepFailPoints(peerMap, fdb)) :
    \E ord \in Orders(peerMap) : Sweep(F, ord)

\* The controller creates the self node.
EnvCreateSelf ==
  /\ ~selfNode.exists
  /\ selfNode' = Node(FALSE, SelfCreated(cfg))
  /\ last' = EnvLast
  /\ UNCHANGED <<cfg, peerMap, fdb, rules, link, ndp, thread>>

\* The controller marks the self node for deletion, or the node is removed.
EnvDeleteSelf ==
  /\ selfNode.exists
  /\ \/ ~selfNode.deleting /\ selfNode' = [selfNode EXCEPT !.deleting = TRUE]
     \/ selfNode' = NoNode
  /\ last' = EnvLast
  /\ UNCHANGED <<cfg, peerMap, fdb, rules, link, ndp, thread>>

\* Drift of the dataplane: a neighbor entry vanishes, a stray entry with the
\* local node's own MAC appears, the link vanishes.
Drift ==
  /\ \/ \E h \in DOMAIN fdb : fdb' = vxlanDel(fdb, h) /\ link' = link
     \/ /\ HWSelf \notin DOMAIN fdb
        /\ fdb' = vxlanAdd(fdb, Peer(ParseIP("172.16.0.1"), HWSelf, NilIP, NilIP, 0))
        /\ link' = link
     \/ link.up /\ link' = NoLink /\ fdb' = fdb
  /\ last' = EnvLast
  /\ UNCHANGED <<cfg, peerMap, selfNode, rules, ndp, thread>>

InitWith(cfgs) ==
  /\ cfg \in cfgs
  /\ peerMap = << >>
  /\ selfNode = NoNode
  /\ fdb = << >>
  /\ rules = {ReservedMark}
  /\ link = NoLink
  /\ last = LastRec("init", "", NotFound, FALSE, FALSE, << >>)
  /\ ndp = NdpNew
  /\ thread = NoThreads

----------------------------------------------------------------------------
(* Spec: the dataplane of an IPv4 cluster with two peers *)

\* What client.Get answers for a peer.  peerA is gone, is being deleted, the
\* lookup fails, it is not yet bootstrapped, or it is ready: with MAC 01 and
\* mark 0x100, with MAC 02 and mark 0x100, or with MAC 01 written in upper
\* case and a mark that does not parse.  peerB is gone, or ready with MAC 01
\* and mark 0x100: it can share its MAC and its mark with peerA.
PeerGets(n, c) ==
  IF n = "peerA"
  THEN {NotFound, GetError,
        GetResult("ok", TRUE, ReadyPeer(n, c, "aa:bb:cc:dd:ee:01", "0x100")),
        GetResult("ok", FALSE, PeerStatus(c, "", "", "", "", "")),
        GetResult("ok", FALSE, ReadyPeer(n, c, "aa:bb:cc:dd:ee:01", "0x100")),
        GetResult("ok", FALSE, ReadyPeer(n, c, "aa:bb:cc:dd:ee:02", "0x100")),
        GetResult("ok", FALSE, ReadyPeer(n, c, "AA-BB-CC-DD-EE-01", ""))}
  ELSE {NotFound,
        GetResult("ok", FALSE, ReadyPeer(n, c, "aa:bb:cc:dd:ee:01", "0x100"))}

Init == InitWith({Cfg(TRUE, FALSE)})

\* In this specification the resync of a peer event can fail as a whole.
PeerEvents ==
  \E n \in PeerNames :
    PeerEvent(n, PeerGets(n, cfg), {FailPoint("ListNeigh", "")})

Next == PeerEvents \/ SelfEvent \/ SweepPass \/ EnvCreateSelf \/ Drift

Spec == Init /\ [][Next]_vars

----------------------------------------------------------------------------
(* SpecPeer: one peer whose status can be anything, in every configuration *)

\* What client.Get answers for the peer: it is gone, or it has a status whose
\* parent address is empty, malformed or good, whose MAC is empty or good,
\* whose tunnel addresses are good, empty or swapped between the two fields,
\* and whose mark is empty or good.
PeerStatuses(n, c) ==
  {PeerStatus(c, parent, t[1], t[2], mac, mark) :
     parent \in {"", "bad", PeerParentText(n, version(c))},
     t \in {<<"10.10.0.2", "fd00::2">>, <<"", "">>, <<"fd00::2", "10.10.0.2">>},
     mac \in {"", "aa:bb:cc:dd:ee:01"},
     mark \in {"", "0x100"}}

AnyPeerGets(n, c) ==
  {NotFound} \cup {GetResult("ok", FALSE, st) : st \in PeerStatuses(n, c)}

InitPeer == InitWith(Cfgs)

AnyPeerEvent ==
  PeerEvent("peerA", AnyPeerGets("peerA", cfg),
            {FailPoint("ListNeigh", ""), FailPoint("Add", "peerA"),
             FailPoint("Ensure", "peerA")})

NextPeer == AnyPeerEvent

SpecPeer == InitPeer /\ [][NextPeer]_vars

----------------------------------------------------------------------------
(* SpecSelf: the life of the local node's resource, in every configuration *)

\* What client.Get answers for the one peer of this specification.
OnePeerGets(n, c) ==
  {NotFound, GetResult("ok", FALSE, ReadyPeer(n, c, "aa:bb:cc:dd:ee:01", "0x100"))}

InitSelf == InitWith(Cfgs)

OnePeerEvent == PeerEvent("peerA", OnePeerGets("peerA", cfg), {})

NextSelf ==
  SelfEvent \/ SweepPass \/ EnvCreateSelf \/ EnvDeleteSelf \/ OnePeerEvent \/ Drift

SpecSelf == InitSelf /\ [][NextSelf]_vars

----------------------------------------------------------------------------
(* What the record of the last handler shows *)

\* The calls of a log made to one of the functions fns.
CallsTo(calls, fns) == SelectSeq(calls, LAMBDA c : c.fn \in fns)

\* Every call of a log succeeded.
AllOk(calls) == \A i \in DOMAIN calls : calls[i].ok

\* client.Get answered that the resource is gone or is being deleted.
IsDelete(get) == get.res = "notfound" \/ (get.res = "ok" /\ get.deleting)

\* The parent address text reconcileEgressNode reads from a status.
ParentText(c, st) == IF version(c) = 4 THEN st.parentIPv4 ELSE st.parentIPv6

\* The address an address text denotes in the family fam, nil if none.
InFamily(s, fam) == IF ParseIP(s).fam = fam THEN ParseIP(s) ELSE NilIP

\* Two net.IP values are the same address, whatever the length of their byte form.
SameIP(a, b) == a.fam = b.fam /\ a.txt = b.txt

\* The last handler was a reconcile of a peer event that passed the early
\* checks: the resource is there, its parent address is not empty, its MAC parses.
ReadyPeerEvent ==
  /\ last.op = "reconcile" /\ last.name # NodeName
  /\ last.get.res = "ok" /\ ~last.get.deleting
  /\ ParentText(cfg, last.get.status) # ""
  /\ ~ParseMAC(last.get.status.mac).err

\* The last handler ran the neighbor resync to its end, ListNeigh and every
\* Add and Del succeeding.
ResyncDone ==
  /\ last.op \in {"reconcile", "sweep"}
  /\ CallsTo(last.calls, {"ListNeigh"}) # << >>
  /\ AllOk(CallsTo(last.calls, {"ListNeigh", "Add", "Del"}))

\* The last handler was a pass of the sweep that found the self entry.
SweepRan == last.op = "sweep" /\ ~last.gated

----------------------------------------------------------------------------
(* C1 *)

\* C1: in every reachable state every entry of the peer map under a name other
\* than the local node's is fully resolved: its parent address is a valid
\* address, its MAC is parsed, and for every enabled family its tunnel address
\* is present and of that family.
C1_PeersFullyResolved ==
  \A n \in DOMAIN peerMap \ {NodeName} :
    /\ peerMap[n].Parent # NilIP
    /\ peerMap[n].MAC # NilMAC
    /\ cfg.EnableIPv4 => peerMap[n].IPv4.fam = 4
    /\ cfg.EnableIPv6 => peerMap[n].IPv6.fam = 6

----------------------------------------------------------------------------
(* C2 *)

\* C2: after a neighbor resync that ran to its end with ListNeigh, Add and Del
\* succeeding, the MACs of the neighbor table are exactly the MACs of the peer
\* map's entries under names other than the local node's.
C2_ResyncExact ==
  ResyncDone =>
    DOMAIN fdb = {peerMap[n].MAC : n \in DOMAIN peerMap \ {NodeName}}

\* A resync with the self entry and two peers of different MACs in the map,
\* which removed a stray entry carrying the local node's own MAC.
C2_Witness ==
  /\ ResyncDone
  /\ DOMAIN peerMap = Nodes
  /\ Cardinality(DOMAIN fdb) = 2
  /\ \E i \in DOMAIN last.calls :
       last.calls[i].fn = "Del" /\ last.calls[i].key = HardwareAddrString(HWSelf)

----------------------------------------------------------------------------
(* C3 *)

\* C3: a peer event that is not a deletion, with a non-empty parent address
\* and a parsable MAC, stores the peer with its parent address, its MAC, the
\* tunnel addresses that parse to their family and the parsed mark (0 if the
\* mark does not parse), runs one resync that adds the peer's MAC to the
\* neighbor table, issues exactly one Ensure with both marks the peer's mark,
\* and returns no error.
C3_ReadyPeerStored ==
  ReadyPeerEvent =>
    /\ last.name \in DOMAIN peerMap
    /\ SameIP(peerMap[last.name].Parent,
              ParseIP(ParentText(cfg, last.get.status)))
    /\ peerMap[last.name].MAC = ParseMAC(last.get.status.mac).mac
    /\ SameIP(peerMap[last.name].IPv4, InFamily(last.get.status.tunIPv4, 4))
    /\ SameIP(peerMap[last.name].IPv6, InFamily(last.get.status.tunIPv6, 6))
    /\ peerMap[last.name].Mark = peerMark(parseMarkToInt(last.get.status.mark))
    /\ Len(CallsTo(last.calls, {"ListNeigh"})) = 1
    /\ ResyncDone => peerMap[last.name].MAC \in DOMAIN fdb
    /\ \E i \in DOMAIN last.calls :
         /\ last.calls[i].fn = "Ensure"
         /\ last.calls[i].markIn = peerMap[last.name].Mark
         /\ last.calls[i].markOut = peerMap[last.name].Mark
    /\ Len(CallsTo(last.calls, {"Ensure"})) = 1
    /\ ~last.err

----------------------------------------------------------------------------
(* C4 *)

\* C4: a reconcile of a peer event whose resource is gone or is being deleted
\* removes exactly that name from the peer map and runs one neighbor resync;
\* when the resync's calls succeed the neighbor table holds no entry for the
\* deleted peer's MAC unless a remaining peer has the same MAC; the reconcile
\* returns no error, also when the resync fails.
C4_PeerDelete ==
  [][(last'.op = "reconcile" /\ last'.name # NodeName /\ IsDelete(last'.get)) =>
       /\ peerMap' = [n \in DOMAIN peerMap \ {last'.name} |-> peerMap[n]]
       /\ Len(CallsTo(last'.calls, {"ListNeigh"})) = 1
       /\ (/\ AllOk(last'.calls)
           /\ last'.name \in DOMAIN peerMap
           /\ \A n \in DOMAIN peerMap' \ {NodeName} :
                peerMap'[n].MAC # peerMap[last'.name].MAC)
          => peerMap[last'.name].MAC \notin DOMAIN fdb'
       /\ ~last'.err]_vars

\* A peer's deletion whose resync removed a neighbor entry while another peer
\* stays in the map.
C4_Witness ==
  /\ last.op = "reconcile" /\ last.name = "peerA" /\ IsDelete(last.get)
  /\ AllOk(last.calls)
  /\ CallsTo(last.calls, {"Del"}) # << >>
  /\ "peerB" \in DOMAIN peerMap
  /\ "peerA" \notin DOMAIN peerMap

----------------------------------------------------------------------------
(* C5 *)

\* C5: a reconcile of an event for the local node whose resource is gone or is
\* being deleted changes nothing: the peer map, the neighbor table, the rules,
\* the link and the node's status stay as they are, no call is issued and no
\* error is returned.
C5_SelfDeleteNoOp ==
  [][(last'.op = "reconcile" /\ last'.name = NodeName /\ IsDelete(last'.get)) =>
       /\ UNCHANGED <<peerMap, fdb, rules, link, selfNode>>
       /\ last'.calls = << >>
       /\ ~last'.err]_vars

\* The local node's deletion reconciled while the map holds the self entry and
\* a peer, and the dataplane holds a neighbor and the peer's rule.
C5_Witness ==
  /\ last.op = "reconcile" /\ last.name = NodeName /\ IsDelete(last.get)
  /\ DOMAIN peerMap = {NodeName, "peerA"}
  /\ HW1 \in DOMAIN fdb
  /\ 256 \in rules

----------------------------------------------------------------------------
(* C6 *)

\* A pass of the sweep whose resync ran calls PurgeStaleRules once, with live
\* marks that hold no mark that no entry of the peer map carries; if the call
\* succeeds no rule of such a mark (the reserved mark apart) is left.
SweepPurgesDeadMarks ==
  (SweepRan /\ CallsTo(last.calls, {"ListNeigh"}) # << >>
            /\ AllOk(CallsTo(last.calls, {"ListNeigh"}))) =>
    /\ Len(CallsTo(last.calls, {"PurgeStaleRules"})) = 1
    /\ \A m \in Marks \ {0, ReservedMark} :
         (\A n \in DOMAIN peerMap : peerMap[n].Mark # m) =>
           \A i \in DOMAIN last.calls :
             last.calls[i].fn = "PurgeStaleRules" =>
               /\ m \notin last.calls[i].live
               /\ last.calls[i].ok => m \notin rules

\* The reconcile of a peer's deletion leaves the rules as they are.
DeleteKeepsRules ==
  (last'.op = "reconcile" /\ last'.name # NodeName /\ IsDelete(last'.get)) =>
    rules' = rules

\* C6: once no entry of the peer map carries a non-zero mark m (its only
\* carrier was deleted), a complete pass of the sweep calls PurgeStaleRules
\* with live marks that do not hold m, and the rule for m is gone after it;
\* the reconcile of the deletion itself purges nothing.
C6_NextSweepPurges == []SweepPurgesDeadMarks /\ [][DeleteKeepsRules]_vars

\* A complete pass over a map that holds the self entry only: the live marks
\* are empty and the rule of the deleted peer's mark is gone.
C6_Witness ==
  /\ SweepRan /\ AllOk(last.calls)
  /\ DOMAIN peerMap = {NodeName}
  /\ \E i \in DOMAIN last.calls :
       last.calls[i].fn = "PurgeStaleRules" /\ last.calls[i].live = {}
  /\ 256 \notin rules
  /\ ReservedMark \in rules

----------------------------------------------------------------------------
(* C7 *)

\* A call whose failure ends the pass: the status repair's getParent, lookup
\* answered NotFound, or Update; EnsureLink; ListNeigh.
Aborting(c) ==
  \/ ~c.ok /\ c.fn \in {"getParent", "Update", "EnsureLink", "ListNeigh"}
  \/ c.fn = "Get" /\ c.key = "notfound"

\* C7 as stated: in a pass of the sweep whatever step fails, every step is
\* executed: the status repair, EnsureLink, the resync, PurgeStaleRules.
C7_AllStepsRun ==
  SweepRan =>
    \A fn \in {"getParent", "EnsureLink", "ListNeigh", "PurgeStaleRules"} :
      CallsTo(last.calls, {fn}) # << >>

\* C7 amended: a pass of the sweep starts with the status repair; an error
\* of the status repair, of EnsureLink or of the resync's ListNeigh ends the
\* pass there; a failing Del, Add, Ensure or PurgeStaleRules is logged and
\* the pass goes on: with none of the former, the pass calls EnsureLink, Add
\* for every peer and Ensure for every entry, and ends with PurgeStaleRules.
C7_LaterStepsRun ==
  SweepRan =>
    /\ last.calls # << >> /\ last.calls[1].fn = "getParent"
    /\ \A i \in DOMAIN last.calls :
         Aborting(last.calls[i]) => i = Len(last.calls)
    /\ (\A i \in DOMAIN last.calls : ~Aborting(last.calls[i])) =>
         /\ CallsTo(last.calls, {"EnsureLink"}) # << >>
         /\ \A n \in DOMAIN peerMap \ {NodeName} :
              \E i \in DOMAIN last.calls :
                last.calls[i].fn = "Add" /\ last.calls[i].key = n
         /\ \A n \in DOMAIN peerMap :
              \E i \in DOMAIN last.calls :
                last.calls[i].fn = "Ensure" /\ last.calls[i].key = n
         /\ last.calls[Len(last.calls)].fn = "PurgeStaleRules"

\* A pass over the self entry and two peers in which an Ensure failed and
\* PurgeStaleRules was still called.
C7_Witness ==
  /\ SweepRan
  /\ DOMAIN peerMap = Nodes
  /\ \E i \in DOMAIN last.calls :
       last.calls[i].fn = "Ensure" /\ ~last.calls[i].ok
  /\ last.calls[Len(last.calls)].fn = "PurgeStaleRules"
  /\ last.calls[Len(last.calls)].ok

----------------------------------------------------------------------------
(* C8 *)

\* The calls that change the tunnel device or the policy route engine.
Mutating(calls) == CallsTo(calls, {"Add", "Del", "Ensure", "PurgeStaleRules"})

\* C8: after a complete pass of the sweep in which every call succeeded, a
\* second pass over the same peer map, again with every call succeeding,
\* issues no Add, Del, Ensure or PurgeStaleRules.
C8_SecondPassQuiet ==
  (SweepRan /\ AllOk(last.calls)
            /\ CallsTo(last.calls, {"PurgeStaleRules"}) # << >>) =>
    \A ord \in Orders(peerMap) :
      Mutating(keepVXLAN(cfg, peerMap, selfNode, fdb, rules, link, {}, ord,
                         getParent(version(cfg))).calls) = << >>

----------------------------------------------------------------------------
(* C9 *)

\* C9: in a pass of the sweep Ensure is called for the entries of non-zero
\* mark only: never with mark zero, never for the local node's own entry.
C9_EnsureOnlyMarked ==
  SweepRan =>
    \A i \in DOMAIN last.calls :
      last.calls[i].fn = "Ensure" =>
        last.calls[i].markIn # 0 /\ last.calls[i].key # NodeName

----------------------------------------------------------------------------
(* C10 *)

\* C10: when the lookup of the sweep's status repair answers NotFound, no
\* error reaches the sweep (the pass goes on to EnsureLink) and no status is
\* written; when the lookup fails otherwise, the error reaches the sweep,
\* which ends the pass to retry it.
C10_NotFoundDeferred ==
  SweepRan =>
    \A i \in DOMAIN last.calls :
      last.calls[i].fn = "Get" =>
        /\ last.calls[i].key = "notfound" =>
             /\ i < Len(last.calls) /\ last.calls[i + 1].fn = "EnsureLink"
             /\ CallsTo(last.calls, {"Update"}) = << >>
        /\ last.calls[i].key = "error" => i = Len(last.calls)

----------------------------------------------------------------------------
(* C11 *)

\* One of the fields updateEgressNodeStatus writes differs, in status st, from
\* the value derived for it: the parent's name, the parent address of the
\* cluster's family, the emptied parent address of the other family, the
\* phase of a status that is ready.
FieldsDiffer(c, st, par) ==
  \/ st.parentName # par.Name
  \/ (IF version(c) = 4 THEN st.parentIPv4 ELSE st.parentIPv6) # IPString(par.IP)
  \/ (IF version(c) = 4 THEN st.parentIPv6 ELSE st.parentIPv4) # ""
  \/ parseVTEP(c, st).ready /\ st.phase # "Succeeded"

\* A log holds a status write.
HasUpdate(calls) == CallsTo(calls, {"Update"}) # << >>

\* A step in which updateEgressNodeStatus got to its derivation (from the
\* sweep, after its lookup; from an event of the local node, after getParent)
\* issues a status write exactly if a written field differs.
WriteIffDiffers ==
  /\ (last'.op = "sweep" /\ \E i \in DOMAIN last'.calls :
                              last'.calls[i].fn = "Get" /\ last'.calls[i].ok)
       => (HasUpdate(last'.calls)
             <=> FieldsDiffer(cfg, selfNode.status, getParent(version(cfg))))
  /\ (last'.op = "reconcile" /\ last'.name = NodeName
        /\ \E i \in DOMAIN last'.calls :
             last'.calls[i].fn = "getParent" /\ last'.calls[i].ok)
       => (HasUpdate(last'.calls)
             <=> FieldsDiffer(cfg, last'.get.status, getParent(version(cfg))))

\* Right after a status write that succeeded, neither the sweep's status
\* repair nor an event of the local node would write again.
QuietAfterWrite ==
  (\E i \in DOMAIN last.calls : last.calls[i].fn = "Update" /\ last.calls[i].ok) =>
    /\ ~HasUpdate(updateEgressNodeStatus(FALSE, ZeroStatus, cfg, selfNode, {},
                                         getParent(version(cfg))).calls)
    /\ ~HasUpdate(ensureEgressNodeStatus(selfNode.status, cfg, peerMap, selfNode,
                                         {}, getParent(version(cfg))).calls)

\* C11: updateEgressNodeStatus writes the self node's status if and only if a
\* written field (parent name, parent address of the enabled family, the other
\* family's parent address, phase) differs from its derived value; once a
\* write succeeded, a later derivation, from an event or from the sweep,
\* writes nothing.
C11_WriteOnlyOnChange == [][WriteIffDiffers]_vars /\ []QuietAfterWrite

\* An event of the local node whose status write succeeded and left the
\* status ready.
C11_Witness ==
  /\ last.op = "reconcile" /\ last.name = NodeName
  /\ \E i \in DOMAIN last.calls : last.calls[i].fn = "Update" /\ last.calls[i].ok
  /\ selfNode.status.phase = "Succeeded"
  /\ NodeName \in DOMAIN peerMap

----------------------------------------------------------------------------
(* SpecVTEP: the local node's resource with any tunnel fields *)

\* The statuses the local node's resource is created with: the MAC empty or
\* good, the tunnel addresses good, empty, unparsable or swapped between the
\* two fields; the fields of a disabled family are empty.
SelfStatuses(c) ==
  {Status("", "", "", IF c.EnableIPv4 THEN t[1] ELSE "",
          IF c.EnableIPv6 THEN t[2] ELSE "", mac, "", "") :
     t \in {<<"10.10.0.1", "fd00::1">>, <<"", "">>, <<"bad", "bad">>,
            <<"fd00::1", "10.10.0.1">>},
     mac \in {"", "aa:bb:cc:dd:ee:10"}}

\* The local node's resource is created, with one of these statuses.
EnvCreateSelfAny ==
  /\ ~selfNode.exists
  /\ \E st \in SelfStatuses(cfg) : selfNode' = Node(FALSE, st)
  /\ last' = EnvLast
  /\ UNCHANGED <<cfg, peerMap, fdb, rules, link, ndp, thread>>

InitVTEP == InitWith(Cfgs)

NextVTEP == SelfEvent \/ SweepPass \/ EnvCreateSelfAny \/ EnvDeleteSelf

SpecVTEP == InitVTEP /\ [][NextVTEP]_vars

----------------------------------------------------------------------------
(* C12 *)

\* A status is resolved: its MAC parses and, for every enabled family, its
\* tunnel address is not empty and is an address of that family.
Resolved(c, st) ==
  /\ ~ParseMAC(st.mac).err
  /\ c.EnableIPv4 => (st.tunIPv4 # "" /\ ParseIP(st.tunIPv4).fam = 4)
  /\ c.EnableIPv6 => (st.tunIPv6 # "" /\ ParseIP(st.tunIPv6).fam = 6)

\* C12: parseVTEP takes a status as ready if and only if its MAC parses and,
\* for every enabled family, its tunnel address is not empty and parses to an
\* address of that family; an event of the local node stores the self entry,
\* and sets the phase Succeeded, for such a status only.
C12_ReadyIffResolved ==
  [][(last'.op = "reconcile" /\ last'.name = NodeName
        /\ last'.get.res = "ok" /\ ~last'.get.deleting) =>
       /\ parseVTEP(cfg, last'.get.status).ready <=> Resolved(cfg, last'.get.status)
       /\ (/\ NodeName \in DOMAIN peerMap'
           /\ (NodeName \in DOMAIN peerMap => peerMap'[NodeName] # peerMap[NodeName]))
          => Resolved(cfg, last'.get.status)
       /\ (selfNode.status.phase # "Succeeded"
             /\ selfNode'.status.phase = "Succeeded")
          => Resolved(cfg, last'.get.status)]_vars

----------------------------------------------------------------------------
(* C13 *)

\* C13: a pass of the sweep that finds no entry of the local node in the peer
\* map executes no later step: no status repair, no EnsureLink, no resync, no
\* Ensure, no PurgeStaleRules; and it leaves the neighbor table, the rules and
\* the link as they are.
C13_GatedSweepIdle ==
  [][(last'.op = "sweep" /\ NodeName \notin DOMAIN peerMap) =>
       /\ last'.gated
       /\ last'.calls = << >>
       /\ UNCHANGED <<fdb, rules, link, selfNode, peerMap>>]_vars

\* A pass that found no self entry while the map holds a peer whose neighbor
\* entry is missing.
C13_Witness ==
  /\ last.op = "sweep" /\ last.gated
  /\ NodeName \notin DOMAIN peerMap
  /\ "peerA" \in DOMAIN peerMap
  /\ fdb = << >>

----------------------------------------------------------------------------
(* SpecSelfFair: SpecSelf with the sweep's loop scheduled fairly *)

\* A pass of the sweep in which the environment makes no call fail.
CleanSweep == \E ord \in Orders(peerMap) : Sweep({}, ord)

\* keepVXLAN loops forever, sleeping between passes: a pass in which no call
\* is made to fail comes again and again.
SpecSelfFair == InitSelf /\ [][NextSelf]_vars /\ WF_vars(CleanSweep)

----------------------------------------------------------------------------
(* C14 *)

\* The events have stopped, the self entry is in the peer map and the calls
\* succeed: the last handler is a pass of the sweep in which no call failed
\* (a lookup answered NotFound is an answer, not a failure).
Calm ==
  /\ NodeName \in DOMAIN peerMap
  /\ last.op = "sweep"
  /\ \A i \in DOMAIN last.calls :
       last.calls[i].ok \/ (last.calls[i].fn = "Get" /\ last.calls[i].key = "notfound")

\* The dataplane agrees with the peer map: the neighbor table's MACs are the
\* peers' MACs and the rules are those of the entries' non-zero marks and of
\* the reserved mark.
Converged ==
  /\ DOMAIN fdb = {peerMap[n].MAC : n \in DOMAIN peerMap \ {NodeName}}
  /\ rules = ({peerMap[n].Mark : n \in DOMAIN peerMap} \ {0}) \cup {ReservedMark}

\* C14: if from some point on the events have stopped, the self entry is in
\* the peer map and the calls succeed, then with the sweep scheduled fairly
\* the system reaches, and stays in, a state where the dataplane agrees with
\* the peer map.
C14_Converges == <>[]Calm => <>[]Converged

----------------------------------------------------------------------------
(* SpecNDP: the NDP responder, its callers and its read loop *)

\* The record of the responder's call that ran last: the address it was
\* given or the read it made, what it returned, the calls it issued.
NdpLast(op, ip, rd, res) ==
  [op |-> op, ip |-> ip, rd |-> rd, err |-> res.err, reason |-> res.reason,
   calls |-> res.calls]
NoRead == Read("", "", NilIP, << >>)

\* A call on a closed connection fails; on an open one it succeeds or not.
ConnOutcomes == IF ndp.connClosed THEN {FALSE} ELSE BOOLEAN

\* A read on a closed connection fails; an open one yields an error or a
\* message.
Reads == IF ndp.connClosed THEN {Read("closing", "", NilIP, << >>)}
         ELSE ReadErrors \cup Messages

RefCount(n, ip) ==
  IF SolicitedNodeMulticast(ip).err THEN 0
  ELSE n.solicitedNodeGroups[SolicitedNodeMulticast(ip).group]

NdpStep(op, ip, rd, res) ==
  /\ ndp' = res.ndp
  /\ last' = NdpLast(op, ip, rd, res)
  /\ UNCHANGED <<cfg, peerMap, selfNode, fdb, rules, link, thread>>

WatchCall ==
  \E ip \in NdpIPs, joinOk \in ConnOutcomes :
     /\ RefCount(ndp, ip) < MaxRef
     /\ NdpStep("Watch", ip, NoRead, Watch(ndp, ip, joinOk))

UnwatchCall ==
  \E ip \in NdpIPs, leaveOk \in ConnOutcomes :
     /\ RefCount(ndp, ip) > -MaxRef
     /\ NdpStep("Unwatch", ip, NoRead, Unwatch(ndp, ip, leaveOk))

GratuitousCall ==
  \E ip \in {IP6a, IP6c}, writeOk \in ConnOutcomes :
     /\ ndp.sentGratuitous < MaxSent
     /\ NdpStep("Gratuitous", ip, NoRead, Gratuitous(ndp, ip, writeOk))

CloseCall ==
  /\ ~ndp.closed
  /\ NdpStep("Close", NilIP, NoRead, Close(ndp))

\* The goroutine newNDPResponder starts: one iteration of its loop.
ReadLoop ==
  \E rd \in Reads, writeOk \in ConnOutcomes :
     /\ ndp.running
     /\ ndp.gotRequest < MaxSent
     /\ NdpStep("read", rd.target, rd, run(ndp, rd, writeOk))

InitNDP ==
  /\ cfg = Cfg(TRUE, TRUE)
  /\ peerMap = << >>
  /\ selfNode = NoNode
  /\ fdb = << >>
  /\ rules = {ReservedMark}
  /\ link = NoLink
  /\ ndp = NdpNew
  /\ thread = NoThreads
  /\ last = NdpLast("init", NilIP, NoRead, NdpResult(NdpNew, FALSE, "", << >>))

NextNDP == WatchCall \/ UnwatchCall \/ GratuitousCall \/ CloseCall \/ ReadLoop

SpecNDP == InitNDP /\ [][NextNDP]_vars

----------------------------------------------------------------------------
(* What the record of the responder's last call shows *)

\* The last call was a Watch or an Unwatch of an IPv6 address.
GroupStep(l) ==
  l.op \in {"Watch", "Unwatch"} /\ ~SolicitedNodeMulticast(l.ip).err

\* One call on the connection, whatever its outcome.
Attempt(call) == [call EXCEPT !.ok = TRUE]

\* The read loop's last iteration read a solicitation that carries a source
\* link-layer address and whose target the decision function approves.
Approved(l) ==
  /\ l.op = "read" /\ l.rd.err = "" /\ l.rd.type = "NS"
  /\ nsLLAddr(l.rd.options) # NilMAC
  /\ announce(l.rd.target, Intf) = dropReasonNone

\* The read loop's last iteration read a message that is no solicitation, or
\* a solicitation without source link-layer address.
Malformed(l) ==
  /\ l.op = "read" /\ l.rd.err = ""
  /\ (l.rd.type # "NS" \/ nsLLAddr(l.rd.options) = NilMAC)

\* The read loop's last iteration read a well-formed solicitation whose
\* target the decision function does not approve.
Disapproved(l) ==
  /\ l.op = "read" /\ l.rd.err = "" /\ l.rd.type = "NS"
  /\ nsLLAddr(l.rd.options) # NilMAC
  /\ announce(l.rd.target, Intf) # dropReasonNone

----------------------------------------------------------------------------
(* C15 *)

\* The calls a Watch or Unwatch that moves a group's refcount from pre to
\* post has to issue: a join on 0 -> 1, a leave on 1 -> 0, nothing otherwise.
EdgeCalls(group, pre, post) ==
  IF pre = 0 /\ post = 1 THEN <<GroupCall("JoinGroup", group, TRUE)>>
  ELSE IF pre = 1 /\ post = 0 THEN <<GroupCall("LeaveGroup", group, TRUE)>>
  ELSE << >>

\* C15: a Watch or Unwatch of an IPv6 address whose join and leave calls
\* succeed joins the address's solicited-node group exactly once if it takes
\* the group's refcount from 0 to 1, leaves it exactly once if it takes the
\* refcount from 1 to 0, and issues no join and no leave otherwise; it changes
\* the refcount of no other group.
C15_JoinLeaveOnEdges ==
  [][(GroupStep(last') /\ AllOk(last'.calls)) =>
       /\ last'.calls =
            EdgeCalls(SolicitedNodeMulticast(last'.ip).group,
                      RefCount(ndp, last'.ip), RefCount(ndp', last'.ip))
       /\ \A g \in Groups \ {SolicitedNodeMulticast(last'.ip).group} :
            ndp'.solicitedNodeGroups[g] = ndp.solicitedNodeGroups[g]]_vars

\* The last watcher of a group has unwatched: the group, joined
\* before, has been left and its refcount is 0.
C15_Witness ==
  /\ last.op = "Unwatch" /\ last.ip = IP6b
  /\ last.calls = <<GroupCall("LeaveGroup", "ff02::1:ff00:10", TRUE)>>
  /\ ndp.solicitedNodeGroups["ff02::1:ff00:10"] = 0
  /\ "ff02::1:ff00:10" \notin ndp.joined

----------------------------------------------------------------------------
(* C16 *)

\* C16: after any sequence of Watch and Unwatch calls, an Unwatch of an
\* address never watched or already fully unwatched included, the refcount of
\* every solicited-node group is greater than or equal to zero.
C16_RefcountNonNegative ==
  \A g \in Groups : ndp.solicitedNodeGroups[g] >= 0

----------------------------------------------------------------------------
(* C17 *)

\* C17: a call Gratuitous(ip) issues exactly one WriteTo, of a Neighbor
\* Advertisement addressed to the all-nodes multicast address, with Override
\* set, Solicited clear, target address ip and the interface's hardware
\* address as target link-layer address, and raises the gratuitous-sent
\* counter by exactly 1.
C17_GratuitousOnce ==
  [][last'.op = "Gratuitous" =>
       /\ Len(last'.calls) = 1
       /\ Attempt(last'.calls[1]) =
            NdpCall("WriteTo", AllNodes, last'.ip, FALSE, TRUE, IntfHW, TRUE)
       /\ ndp'.sentGratuitous = ndp.sentGratuitous + 1]_vars

\* A gratuitous advertisement for fe80::10 has been sent.
C17_Witness ==
  /\ last.op = "Gratuitous" /\ last.ip = IP6a
  /\ AllOk(last.calls)
  /\ ndp.sentGratuitous = 1

----------------------------------------------------------------------------
(* C18 *)

\* C18: an iteration of the read loop that reads a solicitation carrying a
\* source link-layer address and approved by the decision function issues
\* exactly one WriteTo, of a Neighbor Advertisement addressed to the sender
\* the transport reported, with Solicited set, Override clear, the solicited
\* target and the interface's hardware address, and raises the sent-response
\* counter by exactly 1 if that WriteTo succeeds.
C18_SolicitedReply ==
  [][Approved(last') =>
       /\ Len(CallsTo(last'.calls, {"WriteTo"})) = 1
       /\ Attempt(CallsTo(last'.calls, {"WriteTo"})[1]) =
            NdpCall("WriteTo", last'.rd.src, last'.rd.target, TRUE, FALSE,
                    IntfHW, TRUE)
       /\ CallsTo(last'.calls, {"WriteTo"})[1].ok =>
            ndp'.sentResponse = ndp.sentResponse + 1]_vars

\* A solicitation for fe80::10 whose source option comes after two others
\* has been answered.
C18_Witness ==
  /\ Approved(last)
  /\ Len(last.rd.options) = 3
  /\ AllOk(last.calls)
  /\ ndp.sentResponse = 1

----------------------------------------------------------------------------
(* C19 *)

\* C19: an iteration of the read loop whose read returned an error, be it
\* after Close, an EOF or any other I/O error, ends the loop: the loop is no
\* longer running, so it reads no more and sends no more.
C19_ReadErrorEndsLoop ==
  (last.op = "read" /\ last.rd.err # "") => ~ndp.running

----------------------------------------------------------------------------
(* C20 *)

\* C20: an iteration of the read loop that reads a message that is no
\* solicitation, a solicitation without source link-layer address, or a
\* solicitation the decision function does not approve, sends no
\* advertisement; in the first two cases it does not call the decision
\* function; in all three the loop keeps running and the iteration returns
\* neither an error nor the error or closed drop reason.
C20_DropsAreSilent ==
  /\ (Malformed(last) \/ Disapproved(last)) =>
       /\ CallsTo(last.calls, {"WriteTo"}) = << >>
       /\ ndp.running
       /\ ~last.err
       /\ last.reason \notin {dropReasonNone, dropReasonError, dropReasonClosed}
  /\ Malformed(last) => CallsTo(last.calls, {"announce"}) = << >>

\* A solicitation whose only link-layer address option is a target one has
\* been dropped.
C20_Witness ==
  /\ Malformed(last) /\ last.rd.type = "NS"
  /\ last.rd.options = <<LLA("target", HW1)>>
  /\ last.reason = dropReasonNoSourceLL

----------------------------------------------------------------------------
(* SpecClose: Close and the read loop, statement by statement *)

\* The goroutine that calls Close is before its first statement, between its
\* two statements or done; the read loop is inside ReadFrom, or has what
\* ReadFrom returned and is about to look at it, or has exited.
CloseThreads(closePc, loopPc, rd) ==
  [close |-> [pc |-> closePc], loop |-> [pc |-> loopPc, rd |-> rd]]

\* close(n.closed)
CloseSignal ==
  /\ thread.close.pc = "idle"
  /\ ndp' = closeSignal(ndp)
  /\ thread' = [thread EXCEPT !.close.pc = "signalled"]
  /\ UNCHANGED <<cfg, peerMap, selfNode, fdb, rules, link, last>>

\* return n.conn.Close()
CloseConn ==
  /\ thread.close.pc = "signalled"
  /\ ndp' = closeConn(ndp)
  /\ thread' = [thread EXCEPT !.close.pc = "done"]
  /\ last' = NdpLast("Close", NilIP, NoRead, NdpResult(ndp', FALSE, "", << >>))
  /\ UNCHANGED <<cfg, peerMap, selfNode, fdb, rules, link>>

\* n.conn.ReadFrom() returns: an error if the connection is closed, else an
\* error or a message.
LoopRead ==
  \E rd \in Reads :
     /\ thread.loop.pc = "read"
     /\ rd.err # "" \/ ndp.gotRequest < MaxSent
     /\ thread' = [thread EXCEPT !.loop = [pc |-> "classify", rd |-> rd]]
     /\ UNCHANGED <<cfg, peerMap, selfNode, fdb, rules, link, last, ndp>>

\* The rest of the iteration, from `if err != nil` on, and the loop's test.
LoopClassify ==
  \E writeOk \in ConnOutcomes, r \in {thread.loop.rd} :
     /\ thread.loop.pc = "classify"
     /\ ndp' = run(ndp, r, writeOk).ndp
     /\ last' = NdpLast("read", r.target, r, run(ndp, r, writeOk))
     /\ thread' = [thread EXCEPT
                     !.loop = [pc |-> IF ndp'.running THEN "read" ELSE "exited",
                               rd |-> NoRead]]
     /\ UNCHANGED <<cfg, peerMap, selfNode, fdb, rules, link>>

\* A read on the closed connection returns.
ClosedRead == LoopRead /\ ndp.connClosed

InitClose ==
  /\ cfg = Cfg(TRUE, TRUE)
  /\ peerMap = << >>
  /\ selfNode = NoNode
  /\ fdb = << >>
  /\ rules = {ReservedMark}
  /\ link = NoLink
  /\ ndp = NdpNew
  /\ thread = CloseThreads("idle", "read", NoRead)
  /\ last = NdpLast("init", NilIP, NoRead, NdpResult(NdpNew, FALSE, "", << >>))

NextClose == CloseSignal \/ CloseConn \/ LoopRead \/ LoopClassify

\* Close runs to its end once called; a ReadFrom on a closed connection
\* returns; the loop goes on with what ReadFrom returned.
SpecClose ==
  /\ InitClose /\ [][NextClose]_vars
  /\ WF_vars(CloseConn) /\ WF_vars(ClosedRead) /\ WF_vars(LoopClassify)

----------------------------------------------------------------------------
(* C21 *)

\* C21: under every interleaving of the two statements of Close with the read
\* loop, an iteration whose read failed because the connection was closed
\* finds the closed channel closed: it returns the closed drop reason, not the
\* error one, and the loop ends; and once Close has signalled, the loop
\* eventually exits.
C21_GracefulClose ==
  /\ [][(last'.op = "read" /\ last'.rd.err = "closing") =>
          (last'.reason = dropReasonClosed /\ ~ndp'.running)]_vars
  /\ (ndp.closed ~> ~ndp.running)

\* The loop was inside ReadFrom when Close ran, its read failed on the closed
\* connection, and it has exited.
C21_Witness ==
  /\ last.op = "read" /\ last.rd.err = "closing"
  /\ thread.close.pc = "done"
  /\ thread.loop.pc = "exited"
  /\ ndp.gotRequest = MaxSent

----------------------------------------------------------------------------
(* C22 *)

\* The record l is of a reconcile of a peer event whose resource is there and
\* not being deleted, and whose enabled-family parent address is empty or
\* whose MAC does not parse.
DeferredPeerEvent(l) ==
  /\ l.op = "reconcile" /\ l.name # NodeName
  /\ l.get.res = "ok" /\ ~l.get.deleting
  /\ (ParentText(cfg, l.get.status) = "" \/ ParseMAC(l.get.status.mac).err)

\* C22: the reconcile of a peer event that is not a deletion and whose
\* enabled-family parent address is empty, or whose MAC does not parse,
\* returns no error, leaves the peer map as it is, an entry stored earlier for
\* the peer included, and calls neither the tunnel device nor the policy
\* route engine.
C22_PeerDeferred ==
  [][DeferredPeerEvent(last') =>
       /\ ~last'.err
       /\ last'.calls = << >>
       /\ UNCHANGED <<peerMap, fdb, rules, link>>]_vars

\* A peer stored earlier has had an event with an empty MAC and a good parent
\* address: its entry is still there.
C22_Witness ==
  /\ DeferredPeerEvent(last)
  /\ ParentText(cfg, last.get.status) # ""
  /\ last.get.status.mac = ""
  /\ last.name \in DOMAIN peerMap

----------------------------------------------------------------------------
(* SpecRace: a reconcile worker and the sweep, call by call *)

\* In this specification the reconcile of a peer event and the pass of the
\* sweep are not one step each: every access to the peer map and every call
\* of the tunnel device and of the policy route engine is a step of its own,
\* and the two goroutines interleave.  The cluster is IPv4, the peer is
\* peerA, and no call fails.

\* The locals of a goroutine: where it is, the vtep the sweep loaded, the
\* request of the reconcile and the peer it built, and of ensureRoute the
\* neighbor list not yet looked at, the copy of the peer map and the names
\* not yet visited; of the sweep's Range the marks collected so far.
Locals(pc, name, deleted, peer, neigh, copy, todo, marks) ==
  [pc |-> pc, name |-> name, deleted |-> deleted, peer |-> peer,
   neigh |-> neigh, copy |-> copy, todo |-> todo, marks |-> marks]
NoPeer == Peer(NilIP, NilMAC, NilIP, NilIP, 0)
AtRest(pc, name, deleted) ==
  Locals(pc, name, deleted, NoPeer, << >>, << >>, << >>, {})

RaceThreads == {"reconcile", "sweep"}

\* Where a goroutine goes on when its ensureRoute has returned: the sweep
\* with its Range, the reconcile of a stored peer with its Ensure; the
\* reconcile of a deleted peer returns.
afterRoute(t, l) ==
  IF t = "sweep" THEN [l EXCEPT !.pc = "Range"]
  ELSE IF l.deleted THEN AtRest("idle", l.name, l.deleted)
  ELSE [l EXCEPT !.pc = "Ensure"]

\* The peers of the race: peerA, gone or ready.
RaceGets ==
  {NotFound,
   GetResult("ok", FALSE, ReadyPeer("peerA", cfg, "aa:bb:cc:dd:ee:01", "0x100"))}

\* A worker takes a request for the peer: client.Get, the deletion test and
\* the early checks.
RecGet ==
  \E get \in RaceGets :
     /\ thread.reconcile.pc = "idle"
     /\ thread' =
          [thread EXCEPT !.reconcile =
             IF IsDelete(get) THEN AtRest("Delete", "peerA", TRUE)
             ELSE IF ParentText(cfg, get.status) = ""
                     \/ ParseMAC(get.status.mac).err
             THEN AtRest("idle", "peerA", FALSE)
             ELSE [AtRest("Store", "peerA", FALSE) EXCEPT
                     !.peer = peerOf(cfg, get.status)]]
     /\ UNCHANGED <<cfg, peerMap, selfNode, fdb, rules, link, last, ndp>>

\* r.peerMap.Delete(req.Name)
RecDelete ==
  /\ thread.reconcile.pc = "Delete"
  /\ peerMap' = Delete(peerMap, thread.reconcile.name)
  /\ thread' = [thread EXCEPT !.reconcile.pc = "route.ListNeigh"]
  /\ UNCHANGED <<cfg, selfNode, fdb, rules, link, last, ndp>>

\* r.peerMap.Store(node.Name, peer)
RecStore ==
  /\ thread.reconcile.pc = "Store"
  /\ peerMap' = Store(peerMap, thread.reconcile.name, thread.reconcile.peer)
  /\ thread' = [thread EXCEPT !.reconcile.pc = "route.ListNeigh"]
  /\ UNCHANGED <<cfg, selfNode, fdb, rules, link, last, ndp>>

\* r.ruleRoute.Ensure for the stored peer, and the return.
RecEnsure ==
  /\ thread.reconcile.pc = "Ensure"
  /\ rules' = ruleRouteEnsure(rules, thread.reconcile.peer.Mark)
  /\ thread' = [thread EXCEPT !.reconcile = AtRest("idle", @.name, @.deleted)]
  /\ UNCHANGED <<cfg, peerMap, selfNode, fdb, link, last, ndp>>

\* ensureRoute: r.vxlan.ListNeigh()
RouteList(t) ==
  /\ thread[t].pc = "route.ListNeigh"
  /\ thread' = [thread EXCEPT ![t].pc = "route.Range",
                              ![t].neigh = ListNeigh(fdb)]
  /\ UNCHANGED <<cfg, peerMap, selfNode, fdb, rules, link, last, ndp>>

\* ensureRoute: the Range that copies the peer map, the local node left out.
RouteRange(t) ==
  /\ thread[t].pc = "route.Range"
  /\ thread' = [thread EXCEPT
                  ![t].pc = "route.Del",
                  ![t].copy = [n \in routePeers(peerMap) |-> peerMap[n]],
                  ![t].todo = SelectSeq(<<"peerA", "peerB">>,
                                        LAMBDA n : n \in routePeers(peerMap))]
  /\ UNCHANGED <<cfg, peerMap, selfNode, fdb, rules, link, last, ndp>>

\* ensureRoute: one round of the loop over neighList, or its end.
RouteDel(t) ==
  /\ thread[t].pc = "route.Del"
  /\ IF thread[t].neigh = << >>
     THEN /\ thread' = [thread EXCEPT ![t].pc = "route.Add"]
          /\ fdb' = fdb
     ELSE /\ fdb' = delStep(Head(thread[t].neigh), expected(thread[t].copy),
                            [fdb |-> fdb, calls |-> << >>], {}).fdb
          /\ thread' = [thread EXCEPT ![t].neigh = Tail(@)]
  /\ UNCHANGED <<cfg, peerMap, selfNode, rules, link, last, ndp>>

\* ensureRoute: one round of the loop over the copy, or its end and the
\* return.
RouteAdd(t) ==
  /\ thread[t].pc = "route.Add"
  /\ IF thread[t].todo = << >>
     THEN /\ thread' = [thread EXCEPT
                          ![t] = afterRoute(t, [@ EXCEPT !.copy = << >>])]
          /\ fdb' = fdb
     ELSE /\ fdb' = addStep(Head(thread[t].todo), thread[t].copy,
                            [fdb |-> fdb, calls |-> << >>], {}).fdb
          /\ thread' = [thread EXCEPT ![t].todo = Tail(@)]
  /\ UNCHANGED <<cfg, peerMap, selfNode, rules, link, last, ndp>>

RouteStep ==
  \E t \in RaceThreads :
     RouteList(t) \/ RouteRange(t) \/ RouteDel(t) \/ RouteAdd(t)

\* keepVXLAN: the Load of the self entry; without one the pass ends.
SwLoad ==
  /\ thread.sweep.pc = "Load"
  /\ NodeName \in DOMAIN peerMap
  /\ thread' = [thread EXCEPT !.sweep.pc = "Status",
                              !.sweep.peer = peerMap[NodeName]]
  /\ UNCHANGED <<cfg, peerMap, selfNode, fdb, rules, link, last, ndp>>

\* keepVXLAN: the status repair; its error ends the pass.
SwStatus ==
  \E u \in {updateEgressNodeStatus(FALSE, ZeroStatus, cfg, selfNode, {},
                                    getParent(version(cfg)))} :
     /\ thread.sweep.pc = "Status"
     /\ selfNode' = u.api
     /\ thread' = [thread EXCEPT
                     !.sweep = IF u.err THEN AtRest("Load", NodeName, FALSE)
                               ELSE [@ EXCEPT !.pc = "EnsureLink"]]
     /\ UNCHANGED <<cfg, peerMap, fdb, rules, link, last, ndp>>

\* keepVXLAN: r.vxlan.EnsureLink
SwLink ==
  /\ thread.sweep.pc = "EnsureLink"
  /\ link' = linkOf(cfg, thread.sweep.peer)
  /\ thread' = [thread EXCEPT !.sweep.pc = "route.ListNeigh"]
  /\ UNCHANGED <<cfg, peerMap, selfNode, fdb, rules, last, ndp>>

\* keepVXLAN: r.peerMap.Range is called and sees the entries of this moment.
SwRange ==
  /\ thread.sweep.pc = "Range"
  /\ thread' = [thread EXCEPT
                  !.sweep.pc = "Range.Ensure",
                  !.sweep.copy = peerMap,
                  !.sweep.todo = SelectSeq(<<NodeName, "peerA", "peerB">>,
                                           LAMBDA n : n \in DOMAIN peerMap)]
  /\ UNCHANGED <<cfg, peerMap, selfNode, fdb, rules, link, last, ndp>>

\* keepVXLAN: one call of the Range's function, or the end of the Range.
SwEnsure ==
  /\ thread.sweep.pc = "Range.Ensure"
  /\ IF thread.sweep.todo = << >>
     THEN /\ thread' = [thread EXCEPT !.sweep.pc = "Purge",
                                      !.sweep.copy = << >>]
          /\ rules' = rules
     ELSE /\ rules' = ensureStep(Head(thread.sweep.todo), thread.sweep.copy,
                                 [rules |-> rules, calls |-> << >>], {}).rules
          /\ thread' =
               [thread EXCEPT
                  !.sweep.todo = Tail(@),
                  !.sweep.marks =
                     @ \cup markMap([n \in {Head(thread.sweep.todo)} |->
                                       thread.sweep.copy[n]])]
  /\ UNCHANGED <<cfg, peerMap, selfNode, fdb, link, last, ndp>>

\* keepVXLAN: r.ruleRoute.PurgeStaleRules(markMap, r.cfg.FileConfig.Mark),
\* and the sleep that ends the pass.
SwPurge ==
  /\ thread.sweep.pc = "Purge"
  /\ rules' = PurgeStaleRules(rules, thread.sweep.marks, ReservedMark)
  /\ thread' = [thread EXCEPT !.sweep = AtRest("Load", NodeName, FALSE)]
  /\ UNCHANGED <<cfg, peerMap, selfNode, fdb, link, last, ndp>>

\* The local node's resource is created, and its event is reconciled by the
\* worker when it has no other request; both as one step each.
RaceSelf ==
  \/ EnvCreateSelf
  \/ /\ thread.reconcile.pc = "idle"
     /\ selfNode.exists
     /\ Reconcile(NodeName, SelfGet(selfNode), {}, <<"peerA", "peerB">>)

InitRace ==
  /\ cfg = Cfg(TRUE, FALSE)
  /\ peerMap = << >>
  /\ selfNode = NoNode
  /\ fdb = << >>
  /\ rules = {ReservedMark}
  /\ link = NoLink
  /\ last = LastRec("init", "", NotFound, FALSE, FALSE, << >>)
  /\ ndp = NdpNew
  /\ thread = [reconcile |-> AtRest("idle", "", FALSE),
               sweep |-> AtRest("Load", NodeName, FALSE)]

NextRace ==
  \/ RaceSelf
  \/ RecGet \/ RecDelete \/ RecStore \/ RecEnsure
  \/ RouteStep
  \/ SwLoad \/ SwStatus \/ SwLink \/ SwRange \/ SwEnsure \/ SwPurge

SpecRace == InitRace /\ [][NextRace]_vars

----------------------------------------------------------------------------
(* C23 *)

\* C23: under every interleaving of a reconcile that adds a peer with a pass
\* of the sweep, the marks PurgeStaleRules is called with hold the non-zero
\* mark of every peer that is in the peer map at the moment of the call: the
\* call removes the rule of no peer the map holds.
C23_PurgeSparesStoredPeers ==
  [][thread.sweep.pc = "Purge" =>
       \A n \in DOMAIN peerMap :
          peerMap[n].Mark # 0 =>
            /\ peerMap[n].Mark \in thread.sweep.marks
            /\ peerMap[n].Mark \in rules => peerMap[n].Mark \in rules']_vars

----------------------------------------------------------------------------
(* C24 *)

\* The reconcile of a deletion of the peer has returned, and neither
\* goroutine is inside ensureRoute.
DeleteSettled ==
  /\ thread.reconcile.pc = "idle" /\ thread.reconcile.deleted
  /\ thread.reconcile.name \notin DOMAIN peerMap
  /\ thread.sweep.pc \notin
       {"route.ListNeigh", "route.Range", "route.Del", "route.Add"}

\* C24: under every interleaving of a reconcile that deletes a peer with an
\* ensureRoute that runs at the same time, once both have returned the
\* neighbor table holds no entry for the MAC of the deleted peer.
C24_DeletedPeerStaysOut ==
  DeleteSettled => HW1 \notin DOMAIN fdb

----------------------------------------------------------------------------
(* C25 *)

\* C25: once the entry of the local node is in the peer map, no reconcile and
\* no pass of the sweep removes it, so no later pass is gated; and the entry
\* changes only by an event of the local node whose resource is there, is not
\* being deleted and has a ready status: a deletion and a status that is not
\* ready leave the last ready record in place.
C25_SelfEntryKept ==
  [][(NodeName \in DOMAIN peerMap) =>
       (/\ NodeName \in DOMAIN peerMap'
        /\ (last'.op = "sweep" => ~last'.gated)
        /\ (NodeName \in DOMAIN peerMap'
              /\ peerMap'[NodeName] # peerMap[NodeName]) =>
             (/\ last'.op = "reconcile" /\ last'.name = NodeName
              /\ last'.get.res = "ok" /\ ~last'.get.deleting
              /\ Resolved(cfg, last'.get.status)))]_vars

----------------------------------------------------------------------------
(* C26 *)

\* C26: after a Watch or an Unwatch of an IPv6 address, whether or not its
\* JoinGroup or LeaveGroup failed, the interface is a member of a
\* solicited-node group if and only if the group's refcount is greater than
\* zero; and a call that returns an error leaves every refcount as it was.
C26_MemberIffCounted ==
  [][GroupStep(last') =>
       /\ \A g \in Groups :
            g \in ndp'.joined <=> ndp'.solicitedNodeGroups[g] > 0
       /\ last'.err =>
            ndp'.solicitedNodeGroups = ndp.solicitedNodeGroups]_vars

====
